---- MODULE Spec2Model ----
(***************************************************************************)
(* Model of the waste-collection notifier (src/main.py).                   *)
(*                                                                         *)
(* One process: main() parses its flags and then runs one of three modes   *)
(* (config help, ID extraction, normal run).  The normal run is the linear *)
(* pipeline load_config -> validate_notification_settings -> day gate ->   *)
(* get_collection_data -> get_tomorrow_collections ->                      *)
(* send_pushover_notification -> send_ntfy_notification.                   *)
(*                                                                         *)
(* JSON values are modelled as strings: "" is the empty string, "null" a   *)
(* missing key (dict.get returning None or its False default), "false" and *)
(* "true" the booleans, "1" a truthy value that is not the object True.    *)
(* Dates are day numbers; day 0 is a Monday.  The clock is a day number    *)
(* and a time of day, so that formatting a time as a date drops the time.  *)
(***************************************************************************)
EXTENDS Integers, Sequences, FiniteSets, TLC

VARIABLES
    mode,                 \* "run", "extract" or "help": the flag group of main()
    force,                \* args.force
    curl_command,         \* the lines pasted to extract_ids()
    file,                 \* content of CONFIG_FILE
    file0,                \* content of CONFIG_FILE when the process started
    now,                  \* the wall clock
    ticks,                \* how often the clock advanced during the run
    pc,                   \* position of main()
    config,               \* the value load_config() returned
    collection_data,      \* the value get_collection_data() returned
    tomorrow_collections, \* the value get_tomorrow_collections() returned
    pushover_success,     \* the value send_pushover_notification() returned
    ntfy_success,         \* the value send_ntfy_notification() returned
    gets,                 \* requests.get calls to the calendar API
    pushover_posts,       \* requests.post calls to api.pushover.net
    ntfy_posts,           \* requests.post calls to ntfy.sh
    out,                  \* what was printed, one tag per message
    exit_code,            \* <<>> while running, <<code>> once terminated
    gate_date,            \* <<date>> on which the day gate let the run pass
    filter_tomorrow       \* <<date>> the filter compared the events with

vars == <<mode, force, curl_command, file, file0, now, ticks, pc, config,
          collection_data, tomorrow_collections, pushover_success,
          ntfy_success, gets, pushover_posts, ntfy_posts, out, exit_code,
          gate_date, filter_tomorrow>>

----------------------------------------------------------------------------
(* Bounds *)

MaxTicks == 2        \* clock advances during one run
MaxCurlLines == 2    \* lines pasted to extract_ids()
MaxEvents == 2       \* events in a payload given to the filter
MaxFlags == 2        \* flags of one event

----------------------------------------------------------------------------
(* Values *)

\* datetime.weekday() of a Sunday
Sunday == 6

\* timedelta(days=7): the width of the requested window
WindowDays == 7

\* Python truthiness of a JSON scalar
Falsy == {"", "null", "false"}

Truthy(v) == v \notin Falsy

\* `x is True`
IsTrue(v) == v = "true"

EnabledValues == {"false", "true", "1"}

UserKeys == {"", "ukey"}

ApiTokens == {"", "token"}

Topics == {"", "topic"}

PlaceIds == {"", "PLACE"}

ServiceIds == {"", "42"}

\* a top-level field of the file that the program does not know
ExtraValues == {"null", "kept"}

Subjects == {"Garbage", "Recycling", ""}

SeqsUpTo(S, n) == UNION {[1..k -> S] : k \in 0..n}

InSeq(x, s) == \E i \in 1..Len(s) : s[i] = x

----------------------------------------------------------------------------
(* Clock and dates *)

Clocks == [day : 0..6, late : BOOLEAN]

\* the clock one step later; midnight passes when it was late
clock_advance(t) ==
    IF t.late THEN [day |-> t.day + 1, late |-> FALSE]
              ELSE [day |-> t.day, late |-> TRUE]

\* t + datetime.timedelta(days=n)
plus_days(t, n) == [day |-> t.day + n, late |-> t.late]

\* t.strftime('%Y-%m-%d'): the date of a time, the time of day dropped
strftime(t) == t.day

\* t.weekday(): Monday is 0
weekday(t) == t.day % 7

----------------------------------------------------------------------------
(* Configuration file *)

default_config ==
    [kind |-> "json",
     recollect |-> [place_id |-> "", service_id |-> ""],
     notifications |->
         [pushover |-> [enabled |-> "false", user_key |-> "", api_token |-> ""],
          ntfy |-> [enabled |-> "false", topic |-> ""]],
     extra |-> "null"]

\* no file at CONFIG_FILE
AbsentFile == [default_config EXCEPT !.kind = "absent"]

\* a file that json.load rejects
InvalidFile == [default_config EXCEPT !.kind = "invalid"]

JsonFiles ==
    [kind : {"json"},
     recollect : [place_id : PlaceIds, service_id : ServiceIds],
     notifications :
         [pushover : [enabled : EnabledValues, user_key : UserKeys,
                      api_token : ApiTokens],
          ntfy : [enabled : EnabledValues, topic : Topics]],
     extra : ExtraValues]

Files == JsonFiles \cup {AbsentFile, InvalidFile}

\* load_config() without its test of the recollect section
load_config_skips_recollect(f) ==
    IF f.kind = "absent" THEN "created"
    ELSE IF f.kind = "invalid" THEN "error"
    ELSE IF Truthy(f.notifications.pushover.enabled)
            /\ (~Truthy(f.notifications.pushover.user_key)
                \/ ~Truthy(f.notifications.pushover.api_token))
        THEN "pushover_missing"
    ELSE IF Truthy(f.notifications.ntfy.enabled)
            /\ ~Truthy(f.notifications.ntfy.topic)
        THEN "ntfy_missing"
    ELSE IF ~Truthy(f.notifications.pushover.enabled)
            /\ ~Truthy(f.notifications.ntfy.enabled)
        THEN "none_enabled"
    ELSE "ok"

\* load_config() without its test of the ntfy topic
load_config_skips_topic(f) ==
    IF f.kind = "absent" THEN "created"
    ELSE IF f.kind = "invalid" THEN "error"
    ELSE IF ~Truthy(f.recollect.place_id) \/ ~Truthy(f.recollect.service_id)
        THEN "missing_recollect"
    ELSE IF Truthy(f.notifications.pushover.enabled)
            /\ (~Truthy(f.notifications.pushover.user_key)
                \/ ~Truthy(f.notifications.pushover.api_token))
        THEN "pushover_missing"
    ELSE IF ~Truthy(f.notifications.pushover.enabled)
            /\ ~Truthy(f.notifications.ntfy.enabled)
        THEN "none_enabled"
    ELSE "ok"

\* load_config(): the branch it takes on the file content f
load_config(f) ==
    IF f.kind = "absent" THEN "created"
    ELSE IF f.kind = "invalid" THEN "error"
    ELSE IF ~Truthy(f.recollect.place_id) \/ ~Truthy(f.recollect.service_id)
        THEN "missing_recollect"
    ELSE IF Truthy(f.notifications.pushover.enabled)
            /\ (~Truthy(f.notifications.pushover.user_key)
                \/ ~Truthy(f.notifications.pushover.api_token))
        THEN "pushover_missing"
    ELSE IF Truthy(f.notifications.ntfy.enabled)
            /\ ~Truthy(f.notifications.ntfy.topic)
        THEN "ntfy_missing"
    ELSE IF ~Truthy(f.notifications.pushover.enabled)
            /\ ~Truthy(f.notifications.ntfy.enabled)
        THEN "none_enabled"
    ELSE "ok"

validate_notification_settings(c) ==
    IF IsTrue(c.notifications.pushover.enabled)
       /\ (~Truthy(c.notifications.pushover.user_key)
           \/ ~Truthy(c.notifications.pushover.api_token))
    THEN FALSE
    ELSE IF IsTrue(c.notifications.ntfy.enabled)
            /\ ~Truthy(c.notifications.ntfy.topic)
    THEN FALSE
    ELSE TRUE

----------------------------------------------------------------------------
(* ID extraction *)

\* One pasted line: a URL part "places/<place>", a URL part
\* "services/<service>", a header "X-Recollect-Place: <place>:<service>",
\* or text no pattern matches.
CurlLines ==
    {[kind |-> "places", place |-> "AAA", service |-> ""],
     [kind |-> "places", place |-> "BBB", service |-> ""],
     [kind |-> "services", place |-> "", service |-> "11"],
     [kind |-> "header", place |-> "CCC", service |-> "22"],
     [kind |-> "other", place |-> "", service |-> ""]}

CurlCommands == SeqsUpTo(CurlLines, MaxCurlLines)

\* re.search: the first line of the kind, or 0 when the pattern matches nowhere
re_search(kind, cmd) ==
    IF \E i \in 1..Len(cmd) : cmd[i].kind = kind
    THEN CHOOSE i \in 1..Len(cmd) :
            /\ cmd[i].kind = kind
            /\ \A j \in 1..(i - 1) : cmd[j].kind # kind
    ELSE 0

\* the pair is returned only when both IDs were found
both_found(place_id, service_id) == Truthy(place_id) /\ Truthy(service_id)

extract_ids_from_curl(cmd) ==
    LET place_match == re_search("places", cmd)
        service_match == re_search("services", cmd)
        header_match == re_search("header", cmd)
        place1 == IF place_match # 0 THEN cmd[place_match].place ELSE "null"
        service1 == IF service_match # 0 THEN cmd[service_match].service ELSE "null"
        place_id == IF header_match # 0 /\ ~Truthy(place1)
                    THEN cmd[header_match].place ELSE place1
        service_id == IF header_match # 0 /\ ~Truthy(service1)
                      THEN cmd[header_match].service ELSE service1
    IN  IF both_found(place_id, service_id)
        THEN <<place_id, service_id>>
        ELSE <<"null", "null">>

\* extract_ids() starting from the built-in skeleton also when a file exists
updated_config_from_skeleton(f, place_id, service_id) ==
    [default_config EXCEPT !.recollect = [place_id |-> place_id,
                                          service_id |-> service_id]]

\* the content extract_ids() writes back: the loaded content (or the built-in
\* skeleton when there was no file) with the recollect section replaced
updated_config(f, place_id, service_id) ==
    LET base == IF f.kind = "json" THEN f ELSE default_config
    IN  [base EXCEPT !.recollect = [place_id |-> place_id,
                                    service_id |-> service_id]]

----------------------------------------------------------------------------
(* Calendar payloads and the filter *)

\* What get_collection_data() can return: None ("none"), an empty JSON value
\* ("empty"), an object without an "events" key ("no_events"), or an object
\* with an events list ("events").
NoData == [kind |-> "none", events |-> <<>>]

EmptyPayload == [kind |-> "empty", events |-> <<>>]

NoEventsPayload == [kind |-> "no_events", events |-> <<>>]

EventsPayload(es) == [kind |-> "events", events |-> es]

\* `not data`
data_falsy(data) == data.kind \in {"none", "empty"}

\* the guard of the append without its membership test
is_new_type_no_dedup(collection_type, collection_types) ==
    Truthy(collection_type)

\* the guard of the append: a subject that is set and not yet collected
is_new_type(collection_type, collection_types) ==
    Truthy(collection_type) /\ ~InSeq(collection_type, collection_types)

RECURSIVE scan_flags(_, _)
scan_flags(flags, collection_types) ==
    IF flags = <<>> THEN collection_types
    ELSE scan_flags(Tail(flags),
                    IF is_new_type(Head(flags), collection_types)
                    THEN Append(collection_types, Head(flags))
                    ELSE collection_types)

RECURSIVE scan_events(_, _, _)
scan_events(events, tomorrow, collection_types) ==
    IF events = <<>> THEN collection_types
    ELSE scan_events(Tail(events), tomorrow,
                     IF Head(events).day = tomorrow
                     THEN scan_flags(Head(events).flags, collection_types)
                     ELSE collection_types)

get_tomorrow_collections(data, t) ==
    IF data_falsy(data) \/ data.kind # "events" THEN <<>>
    ELSE scan_events(data.events, strftime(plus_days(t, 1)), <<>>)

----------------------------------------------------------------------------
(* Messages *)

NoCollectionMessage == <<"No waste collection scheduled for tomorrow.">>

\* ', '.join(types)
RECURSIVE join(_)
join(types) ==
    IF types = <<>> THEN <<>>
    ELSE IF Len(types) = 1 THEN <<types[1]>>
    ELSE <<types[1], ", ">> \o join(Tail(types))

compose_message(collection_types) ==
    IF collection_types = <<>> THEN NoCollectionMessage
    ELSE <<"Tomorrow's collection includes: ">> \o join(collection_types) \o <<".">>

\* what requests.get / requests.post can do
HttpOutcomes == {"ok", "transport_error", "http_error"}

----------------------------------------------------------------------------
(* Inputs *)

\* responses of the calendar API to a request sent on date `today`
RunPayloads(today) ==
    {EmptyPayload, NoEventsPayload} \cup
    {EventsPayload(es) : es \in
        {<<>>,
         <<[day |-> today, flags |-> <<"Garbage">>]>>,
         <<[day |-> today + 1, flags |-> <<"Garbage">>]>>,
         <<[day |-> today + 1, flags |-> <<"">>]>>,
         <<[day |-> today + 1, flags |-> <<"Garbage", "Recycling", "Garbage">>]>>,
         <<[day |-> today + 2, flags |-> <<"Recycling">>]>>,
         <<[day |-> today + 1, flags |-> <<"Garbage">>],
           [day |-> today + 2, flags |-> <<"Recycling">>]>>}}

\* the dates of the events given to the filter alone
FilterDays == {7, 8}

FilterClocks == {[day |-> 6, late |-> FALSE], [day |-> 6, late |-> TRUE]}

FilterEvents == [day : FilterDays, flags : SeqsUpTo(Subjects, MaxFlags)]

FilterPayloads == {EventsPayload(es) : es \in SeqsUpTo(FilterEvents, MaxEvents)}

\* a configuration load_config() accepts
FilterConfig ==
    [default_config EXCEPT
        !.recollect = [place_id |-> "PLACE", service_id |-> "42"],
        !.notifications.ntfy = [enabled |-> "true", topic |-> "topic"]]

----------------------------------------------------------------------------
(* State after construction: main() has parsed its flags *)

Init ==
    /\ \E m \in {"run", "extract", "help"} : mode = m
    /\ force \in BOOLEAN
    /\ mode # "run" => force = FALSE
    /\ curl_command \in CurlCommands
    /\ mode # "extract" => curl_command = <<>>
    /\ file \in Files
    /\ file0 = file
    /\ now \in Clocks
    /\ mode # "run" => now = [day |-> 0, late |-> FALSE]
    /\ ticks = 0
    /\ pc = "main"
    /\ config = AbsentFile
    /\ collection_data = NoData
    /\ tomorrow_collections = <<>>
    /\ pushover_success = FALSE
    /\ ntfy_success = FALSE
    /\ gets = <<>>
    /\ pushover_posts = <<>>
    /\ ntfy_posts = <<>>
    /\ out = <<>>
    /\ exit_code = <<>>
    /\ gate_date = <<>>
    /\ filter_tomorrow = <<>>

\* The state in which main() calls get_tomorrow_collections(): a forced run
\* whose fetch returned an events list.
InitFilter ==
    /\ mode = "run"
    /\ force = TRUE
    /\ curl_command = <<>>
    /\ file = FilterConfig
    /\ file0 = file
    /\ now \in FilterClocks
    /\ ticks = 0
    /\ pc = "filter"
    /\ config = FilterConfig
    /\ collection_data \in FilterPayloads
    /\ tomorrow_collections = <<>>
    /\ pushover_success = FALSE
    /\ ntfy_success = FALSE
    /\ gets = <<[after |-> strftime(now),
                 before |-> strftime(plus_days(now, WindowDays)),
                 place_id |-> "PLACE", service_id |-> "42"]>>
    /\ pushover_posts = <<>>
    /\ ntfy_posts = <<>>
    /\ out = <<>>
    /\ exit_code = <<>>
    /\ gate_date = <<strftime(now)>>
    /\ filter_tomorrow = <<>>

----------------------------------------------------------------------------
(* Steps of main() *)

\* sys.exit(code), or main() returning (code 0)
Terminate(code, printed) ==
    /\ pc' = "done"
    /\ exit_code' = <<code>>
    /\ out' = out \o printed

\* --config-help
ConfigHelp ==
    /\ pc = "main" /\ mode = "help"
    /\ Terminate(0, <<"config_help">>)
    /\ UNCHANGED <<mode, force, curl_command, file, file0, now, ticks, config,
                   collection_data, tomorrow_collections, pushover_success,
                   ntfy_success, gets, pushover_posts, ntfy_posts, gate_date,
                   filter_tomorrow>>

\* --extract-ids: extract_ids()
ExtractIds ==
    /\ pc = "main" /\ mode = "extract"
    /\ LET ids == extract_ids_from_curl(curl_command)
       IN  IF Truthy(ids[1]) /\ Truthy(ids[2])
           THEN IF file.kind = "invalid"
                THEN /\ file' = file
                     /\ Terminate(0, <<"extracted", "error_updating">>)
                ELSE /\ file' = updated_config(file, ids[1], ids[2])
                     /\ Terminate(0, <<"extracted", "updated">>)
           ELSE /\ file' = file
                /\ Terminate(0, <<"could_not_extract">>)
    /\ UNCHANGED <<mode, force, curl_command, file0, now, ticks, config,
                   collection_data, tomorrow_collections, pushover_success,
                   ntfy_success, gets, pushover_posts, ntfy_posts, gate_date,
                   filter_tomorrow>>

\* config = load_config()
LoadConfig ==
    /\ pc = "main" /\ mode = "run"
    /\ LET branch == load_config(file)
       IN  IF branch = "ok"
           THEN /\ config' = file
                /\ pc' = "validate"
                /\ UNCHANGED <<file, out, exit_code>>
           ELSE /\ file' = IF branch = "created" THEN default_config ELSE file
                /\ Terminate(1, <<branch>>)
                /\ UNCHANGED config
    /\ UNCHANGED <<mode, force, curl_command, file0, now, ticks,
                   collection_data, tomorrow_collections, pushover_success,
                   ntfy_success, gets, pushover_posts, ntfy_posts, gate_date,
                   filter_tomorrow>>

\* if not validate_notification_settings(config): sys.exit(1)
ValidateSettings ==
    /\ pc = "validate"
    /\ IF validate_notification_settings(config)
       THEN /\ pc' = "gate"
            /\ UNCHANGED <<out, exit_code>>
       ELSE Terminate(1, <<"invalid_notification_settings">>)
    /\ UNCHANGED <<mode, force, curl_command, file, file0, now, ticks, config,
                   collection_data, tomorrow_collections, pushover_success,
                   ntfy_success, gets, pushover_posts, ntfy_posts, gate_date,
                   filter_tomorrow>>

\* the day gate taking weekday 0 for Sunday
gate_open_weekday0(f, t) == f \/ weekday(t) = 0

\* the run goes on: --force, or today is a Sunday
gate_open(f, t) == f \/ weekday(t) = Sunday

DayGate ==
    /\ pc = "gate"
    /\ IF gate_open(force, now)
       THEN /\ pc' = "fetch"
            /\ gate_date' = <<strftime(now)>>
            /\ UNCHANGED <<out, exit_code>>
       ELSE /\ Terminate(0, <<"not_sunday">>)
            /\ UNCHANGED gate_date
    /\ UNCHANGED <<mode, force, curl_command, file, file0, now, ticks, config,
                   collection_data, tomorrow_collections, pushover_success,
                   ntfy_success, gets, pushover_posts, ntfy_posts,
                   filter_tomorrow>>

\* main() without its test of the fetched data
fetch_failed_never(data) == FALSE

\* main() gives up after the fetch
fetch_failed(data) == data_falsy(data)

\* collection_data = get_collection_data(config), and main()'s test of it
Fetch ==
    /\ pc = "fetch"
    /\ gets' = Append(gets,
                      [after |-> strftime(now),
                       before |-> strftime(plus_days(now, WindowDays)),
                       place_id |-> config.recollect.place_id,
                       service_id |-> config.recollect.service_id])
    /\ \E outcome \in HttpOutcomes :
        \E payload \in RunPayloads(strftime(now)) :
            LET data == IF outcome = "ok" THEN payload ELSE NoData
                printed == IF outcome = "ok" THEN <<>> ELSE <<"error_fetching">>
            IN  /\ collection_data' = data
                /\ IF fetch_failed(data)
                   THEN Terminate(0, printed \o <<"failed_to_retrieve">>)
                   ELSE /\ pc' = "filter"
                        /\ out' = out \o printed
                        /\ UNCHANGED exit_code
    /\ UNCHANGED <<mode, force, curl_command, file, file0, now, ticks, config,
                   tomorrow_collections, pushover_success, ntfy_success,
                   pushover_posts, ntfy_posts, gate_date, filter_tomorrow>>

\* tomorrow_collections = get_tomorrow_collections(collection_data)
Filter ==
    /\ pc = "filter"
    /\ tomorrow_collections' = get_tomorrow_collections(collection_data, now)
    /\ filter_tomorrow' = <<strftime(plus_days(now, 1))>>
    /\ pc' = "pushover"
    /\ UNCHANGED <<mode, force, curl_command, file, file0, now, ticks, config,
                   collection_data, pushover_success, ntfy_success, gets,
                   pushover_posts, ntfy_posts, out, exit_code, gate_date>>

\* a dispatcher without the test of its backend's flag
backend_enabled_always(backend) == TRUE

\* the dispatcher's own test of its backend's flag
backend_enabled(backend) == Truthy(backend.enabled)

\* pushover_success = send_pushover_notification(tomorrow_collections, config)
SendPushover ==
    /\ pc = "pushover"
    /\ LET pushover_config == config.notifications.pushover
       IN  IF ~backend_enabled(pushover_config)
           THEN /\ pushover_success' = FALSE
                /\ UNCHANGED <<pushover_posts, out>>
           ELSE /\ pushover_posts' =
                       Append(pushover_posts,
                              [token |-> pushover_config.api_token,
                               user |-> pushover_config.user_key,
                               message |-> compose_message(tomorrow_collections)])
                /\ \E outcome \in HttpOutcomes :
                       /\ pushover_success' = (outcome = "ok")
                       /\ out' = Append(out, IF outcome = "ok"
                                             THEN "pushover_sent"
                                             ELSE "error_pushover")
    /\ pc' = "ntfy"
    /\ UNCHANGED <<mode, force, curl_command, file, file0, now, ticks, config,
                   collection_data, tomorrow_collections, ntfy_success, gets,
                   ntfy_posts, exit_code, gate_date, filter_tomorrow>>

\* ntfy_success = send_ntfy_notification(tomorrow_collections, config)
SendNtfy ==
    /\ pc = "ntfy"
    /\ LET ntfy_config == config.notifications.ntfy
       IN  IF ~backend_enabled(ntfy_config)
           THEN /\ ntfy_success' = FALSE
                /\ UNCHANGED <<ntfy_posts, out>>
           ELSE /\ ntfy_posts' =
                       Append(ntfy_posts,
                              [topic |-> ntfy_config.topic,
                               message |-> compose_message(tomorrow_collections)])
                /\ \E outcome \in HttpOutcomes :
                       /\ ntfy_success' = (outcome = "ok")
                       /\ out' = Append(out, IF outcome = "ok"
                                             THEN "ntfy_sent"
                                             ELSE "error_ntfy")
    /\ pc' = "finish"
    /\ UNCHANGED <<mode, force, curl_command, file, file0, now, ticks, config,
                   collection_data, tomorrow_collections, pushover_success,
                   gets, pushover_posts, exit_code, gate_date, filter_tomorrow>>

\* notification_sent requiring both dispatchers
notification_sent_both(pushover_ok, ntfy_ok) == pushover_ok /\ ntfy_ok

\* notification_sent after both dispatchers reported
notification_sent(pushover_ok, ntfy_ok) == (FALSE \/ pushover_ok) \/ ntfy_ok

\* the warning, and main() returns
Finish ==
    /\ pc = "finish"
    /\ IF ~notification_sent(pushover_success, ntfy_success)
       THEN Terminate(0, <<"warning_none_sent">>)
       ELSE Terminate(0, <<>>)
    /\ UNCHANGED <<mode, force, curl_command, file, file0, now, ticks, config,
                   collection_data, tomorrow_collections, pushover_success,
                   ntfy_success, gets, pushover_posts, ntfy_posts, gate_date,
                   filter_tomorrow>>

\* Time passes between two readings of the clock.
Tick ==
    /\ pc \in {"gate", "fetch", "filter"}
    /\ ticks < MaxTicks
    /\ now' = clock_advance(now)
    /\ ticks' = ticks + 1
    /\ UNCHANGED <<mode, force, curl_command, file, file0, pc, config,
                   collection_data, tomorrow_collections, pushover_success,
                   ntfy_success, gets, pushover_posts, ntfy_posts, out,
                   exit_code, gate_date, filter_tomorrow>>

Next ==
    \/ ConfigHelp
    \/ ExtractIds
    \/ LoadConfig
    \/ ValidateSettings
    \/ DayGate
    \/ Fetch
    \/ Filter
    \/ SendPushover
    \/ SendNtfy
    \/ Finish
    \/ Tick

Spec == Init /\ [][Next]_vars

NextFilter == Filter

SpecFilter == InitFilter /\ [][NextFilter]_vars

----------------------------------------------------------------------------
(* Vocabulary of the properties *)

NetworkCalls == Len(gets) + Len(pushover_posts) + Len(ntfy_posts)

Printed(tag) == InSeq(tag, out)

\* a backend's flag is set: JSON true, or 1 (which Python holds equal to True)
FlagSet(backend) == backend.enabled \in {"true", "1"}

\* the configuration the process started with is invalid
InvalidConfig(f) ==
    \/ f.kind = "absent"
    \/ /\ f.kind = "json"
       /\ \/ f.recollect.place_id = ""
          \/ f.recollect.service_id = ""
          \/ ~FlagSet(f.notifications.pushover) /\ ~FlagSet(f.notifications.ntfy)
          \/ /\ FlagSet(f.notifications.pushover)
             /\ \/ f.notifications.pushover.user_key = ""
                \/ f.notifications.pushover.api_token = ""
          \/ /\ FlagSet(f.notifications.ntfy)
             /\ f.notifications.ntfy.topic = ""

ValidConfig(f) == f.kind = "json" /\ ~InvalidConfig(f)

\* both dispatchers have been called and have returned
Dispatched == pc = "finish" \/ (pc = "done" /\ filter_tomorrow # <<>>)

\* the calendar request failed: transport error or non-2xx status
FetchError == Printed("error_fetching")

----------------------------------------------------------------------------
(* C1 *)

\* C1: in run mode an invalid configuration (file absent, place_id or
\* service_id empty, no backend enabled, an enabled backend without a
\* credential) never gets the run past validation: no calendar GET and no
\* POST is made, and when the process has terminated its exit code is 1,
\* whatever the weekday and --force.
C1_InvalidConfigStops ==
    (mode = "run" /\ InvalidConfig(file0)) =>
        /\ NetworkCalls = 0
        /\ pc \in {"main", "validate", "done"}
        /\ pc = "done" => exit_code = <<1>>

C1_Witness ==
    /\ mode = "run" /\ force /\ weekday(now) = Sunday
    /\ file0.kind = "json"
    /\ file0.recollect.place_id = ""
    /\ FlagSet(file0.notifications.ntfy)
    /\ file0.notifications.ntfy.topic # ""
    /\ pc = "done" /\ exit_code = <<1>>
    /\ NetworkCalls = 0

----------------------------------------------------------------------------
(* C2 *)

\* C2: in run mode with a valid configuration, when the day gate reads a
\* weekday other than Sunday and --force was not given, the run ends there
\* with exit code 0; nothing was fetched or posted before the gate and
\* nothing is afterwards.
C2_GateSkips ==
    /\ [](pc = "gate" => ValidConfig(file0) /\ NetworkCalls = 0)
    /\ [][(pc = "gate" /\ ~force /\ weekday(now) # Sunday /\ pc' # pc) =>
            (pc' = "done" /\ exit_code' = <<0>> /\ NetworkCalls' = 0)]_vars
    /\ [][pc = "done" => NetworkCalls' = NetworkCalls]_vars

C2_Witness ==
    /\ mode = "run" /\ ~force /\ ValidConfig(file0)
    /\ weekday(now) # Sunday
    /\ pc = "done" /\ exit_code = <<0>>
    /\ Printed("not_sunday")
    /\ NetworkCalls = 0

----------------------------------------------------------------------------
(* C3 *)

\* C3: once a run has gone through the dispatch step, a backend whose flag
\* is set has been posted to exactly once, whether the call succeeded or
\* failed, and a backend whose flag is not set never; no run calls the
\* calendar endpoint more than once, and no backend more than once.
C3_OncePerBackend ==
    /\ Len(gets) <= 1
    /\ Len(pushover_posts) <= 1
    /\ Len(ntfy_posts) <= 1
    /\ Dispatched =>
        /\ Len(pushover_posts) =
              (IF FlagSet(config.notifications.pushover) THEN 1 ELSE 0)
        /\ Len(ntfy_posts) =
              (IF FlagSet(config.notifications.ntfy) THEN 1 ELSE 0)

C3_Witness ==
    /\ pc = "done" /\ Dispatched
    /\ FlagSet(config.notifications.pushover)
    /\ ~FlagSet(config.notifications.ntfy)
    /\ Len(tomorrow_collections) = 1
    /\ Len(pushover_posts) = 1
    /\ Len(ntfy_posts) = 0
    /\ Len(gets) = 1

----------------------------------------------------------------------------
(* C4 *)

\* C4: with both backends enabled, ntfy is posted to also when the Pushover
\* call failed, the run ends with exit code 0, and the warning that no
\* notification was sent is printed exactly when neither dispatcher
\* reported success.
C4_FailureIsolated ==
    (FlagSet(config.notifications.pushover) /\ FlagSet(config.notifications.ntfy)) =>
        /\ (pc = "finish" /\ Printed("error_pushover")) => Len(ntfy_posts) = 1
        /\ (pc = "done" /\ Dispatched) =>
            /\ exit_code = <<0>>
            /\ Len(ntfy_posts) = 1
            /\ Printed("warning_none_sent") <=>
                  (~Printed("pushover_sent") /\ ~Printed("ntfy_sent"))

C4_Witness ==
    /\ FlagSet(config.notifications.pushover)
    /\ FlagSet(config.notifications.ntfy)
    /\ pc = "done" /\ exit_code = <<0>>
    /\ Printed("error_pushover")
    /\ Printed("ntfy_sent")
    /\ ~Printed("warning_none_sent")
    /\ Len(ntfy_posts) = 1

----------------------------------------------------------------------------
(* C5 *)

\* C5 as stated: when the calendar fetch fails the run is not fatal, sends
\* nothing, prints the warning that no notification was sent, and exits
\* with code 0.
C5_AsStated ==
    (mode = "run" /\ pc = "done" /\ FetchError) =>
        /\ exit_code = <<0>>
        /\ pushover_posts = <<>> /\ ntfy_posts = <<>>
        /\ Printed("warning_none_sent")

\* C5 amended: when the calendar fetch fails the run is not fatal, sends
\* nothing and exits with code 0; it reports the failure to retrieve the
\* collection data and returns before the dispatch step, so the warning
\* that no notification was sent is not printed.
C5_FetchFailureIsSoft ==
    (mode = "run" /\ pc = "done" /\ FetchError) =>
        /\ exit_code = <<0>>
        /\ pushover_posts = <<>> /\ ntfy_posts = <<>>
        /\ Printed("failed_to_retrieve")
        /\ ~Printed("warning_none_sent")
        /\ ~Dispatched

C5_Witness ==
    /\ mode = "run" /\ pc = "done" /\ FetchError
    /\ Len(gets) = 1
    /\ collection_data = NoData
    /\ exit_code = <<0>>
    /\ Printed("failed_to_retrieve")

----------------------------------------------------------------------------
(* C6 *)

\* the fetch succeeded and its payload is empty or has no event on the day
\* the filter calls tomorrow
NothingScheduled ==
    /\ Len(gets) = 1 /\ ~FetchError
    /\ collection_data.kind # "none"
    /\ \A i \in 1..Len(collection_data.events) :
           filter_tomorrow = <<>> \/ collection_data.events[i].day # filter_tomorrow[1]

\* C6: when a successfully fetched payload is empty or has no event for
\* tomorrow, the run does not treat it as an error: the filter returns
\* nothing and every enabled dispatcher is posted the message
\* "No waste collection scheduled for tomorrow.".
C6_NothingScheduledIsDelivered ==
    (mode = "run" /\ pc = "done" /\ NothingScheduled) =>
        /\ ~Printed("failed_to_retrieve")
        /\ tomorrow_collections = <<>>
        /\ FlagSet(config.notifications.pushover) =>
              /\ Len(pushover_posts) = 1
              /\ pushover_posts[1].message = NoCollectionMessage
        /\ FlagSet(config.notifications.ntfy) =>
              /\ Len(ntfy_posts) = 1
              /\ ntfy_posts[1].message = NoCollectionMessage

----------------------------------------------------------------------------
(* C7 *)

\* the subjects of the flags of the events on `day`, in list order
RECURSIVE SubjectsOn(_, _)
SubjectsOn(events, day) ==
    IF events = <<>> THEN <<>>
    ELSE (IF Head(events).day = day THEN Head(events).flags ELSE <<>>)
         \o SubjectsOn(Tail(events), day)

FirstIndex(x, s) == CHOOSE i \in 1..Len(s) : s[i] = x /\ \A j \in 1..(i - 1) : s[j] # x

\* r lists exactly the members of `wanted` that occur in `all`, each once, in
\* the order of their first occurrence in `all`
DistinctInFirstSeenOrder(r, all, wanted) ==
    /\ {r[i] : i \in 1..Len(r)} = {all[i] : i \in 1..Len(all)} \cap wanted
    /\ \A i, j \in 1..Len(r) : i < j => FirstIndex(r[i], all) < FirstIndex(r[j], all)

\* the filter has returned
Filtered == pc = "pushover" /\ filter_tomorrow # <<>>

\* C7 as stated: the filter returns exactly the subjects of the flags of the
\* events of tomorrow, each distinct subject once, in first-seen order.
C7_AsStated ==
    Filtered =>
        DistinctInFirstSeenOrder(
            tomorrow_collections,
            SubjectsOn(collection_data.events, filter_tomorrow[1]),
            Subjects)

\* C7 amended: the filter returns exactly the non-empty subjects of the
\* flags of the events of tomorrow, each distinct subject once, in
\* first-seen order; a flag whose subject is empty contributes nothing, and
\* subjects of events on another day never appear.
C7_DistinctFirstSeen ==
    Filtered =>
        DistinctInFirstSeenOrder(
            tomorrow_collections,
            SubjectsOn(collection_data.events, filter_tomorrow[1]),
            Subjects \ {""})

C7_Witness ==
    /\ Filtered
    /\ Len(collection_data.events) = 2
    /\ collection_data.events[1] = [day |-> 7, flags |-> <<"Garbage", "Recycling">>]
    /\ collection_data.events[2] = [day |-> 7, flags |-> <<"", "Garbage">>]
    /\ tomorrow_collections = <<"Garbage", "Recycling">>

----------------------------------------------------------------------------
(* C8 *)

\* C8: a POST goes to a backend only when its flag is set and its
\* credentials (Pushover: user_key and api_token; ntfy: topic) are not
\* empty, and it carries those credentials.
C8_PostNeedsCredentials ==
    /\ \A i \in 1..Len(pushover_posts) :
           /\ FlagSet(file0.notifications.pushover)
           /\ file0.notifications.pushover.user_key # ""
           /\ file0.notifications.pushover.api_token # ""
           /\ pushover_posts[i].user = file0.notifications.pushover.user_key
           /\ pushover_posts[i].token = file0.notifications.pushover.api_token
    /\ \A i \in 1..Len(ntfy_posts) :
           /\ FlagSet(file0.notifications.ntfy)
           /\ file0.notifications.ntfy.topic # ""
           /\ ntfy_posts[i].topic = file0.notifications.ntfy.topic

C8_Witness ==
    /\ Len(pushover_posts) = 1
    /\ Len(ntfy_posts) = 1
    /\ file0.notifications.ntfy.enabled = "1"
    /\ file0.notifications.pushover.enabled = "true"
    /\ ntfy_posts[1].topic = "topic"

----------------------------------------------------------------------------
(* C9 *)

PlaceLines(cmd) == {i \in 1..Len(cmd) : cmd[i].kind = "places"}

ServiceLines(cmd) == {i \in 1..Len(cmd) : cmd[i].kind = "services"}

HeaderLines(cmd) == {i \in 1..Len(cmd) : cmd[i].kind = "header"}

Least(S) == CHOOSE i \in S : \A j \in S : i <= j

\* the pasted text holds a place_id and a service_id
BothIdsPresent(cmd) ==
    /\ PlaceLines(cmd) \cup HeaderLines(cmd) # {}
    /\ ServiceLines(cmd) \cup HeaderLines(cmd) # {}

\* the IDs the text holds: from the URL, else from the header
PlaceIn(cmd) ==
    IF PlaceLines(cmd) # {} THEN cmd[Least(PlaceLines(cmd))].place
    ELSE cmd[Least(HeaderLines(cmd))].place

ServiceIn(cmd) ==
    IF ServiceLines(cmd) # {} THEN cmd[Least(ServiceLines(cmd))].service
    ELSE cmd[Least(HeaderLines(cmd))].service

----------------------------------------------------------------------------
(* C10 *)

\* C10: the dates of one run agree: the date the filter calls tomorrow is
\* the day after the `after` date of the calendar request, and without
\* --force it is the day after the Sunday on which the day gate passed,
\* also when midnight passes during the run.
C10_DatesAgree ==
    filter_tomorrow # <<>> =>
        /\ filter_tomorrow[1] = gets[1].after + 1
        /\ ~force =>
            /\ weekday([day |-> gate_date[1], late |-> FALSE]) = Sunday
            /\ filter_tomorrow[1] = gate_date[1] + 1

====
